---- MODULE Spec2Model ----
(***************************************************************************)
(* A model of python-pacman (src/pacman.py): the process-wide binary path  *)
(* with its getter and setter, the subprocess wrapper pacman(), and the    *)
(* facade operations built on it, with their parsing of pacman's output.   *)
(*                                                                         *)
(* Python values are encoded as follows.                                   *)
(*   str    a sequence of one-character strings, <<"a", " ", "1">>; text   *)
(*          that the program never takes apart (flags, message prefixes,   *)
(*          paths) is written as one chunk, <<"--noconfirm">>.             *)
(*   None, False, 42 where a str may stand too                             *)
(*          one-chunk sequences that no text equals: <<"None">>, ...       *)
(*   list   a sequence.  dict: a sequence of [key, val] pairs in insertion *)
(*          order.  A package record is a TLA+ record; a record without a  *)
(*          "repo" key has no "repo" field.                                *)
(*   the package argument of pacman(): [list |-> TRUE, items |-> seq] for  *)
(*          a list, [list |-> FALSE, val |-> x] for anything else.         *)
(* The external tool is the environment: every spawned process answers     *)
(* with an exit code, stdout and stderr drawn from bounded sets.           *)
(***************************************************************************)
EXTENDS Integers, Sequences, FiniteSets, TLC

VARIABLES
    PACMAN_BIN,   \* the module global __PACMAN_BIN
    default_bin,  \* the value of __PACMAN_BIN bound, when the module was loaded,
                  \* as the default of the pacman_bin parameters
    call,         \* the last operation called, with its arguments
    spawned,      \* the processes that operation spawned, in order
    outcome       \* how it ended: a return value or an exception

vars == <<PACMAN_BIN, default_bin, call, spawned, outcome>>

-----------------------------------------------------------------------------
(* Bounds of the model. *)

MaxLines == 2      \* lines in one stdout text
MaxPkgs == 2       \* package names in one package list
MaxEflgs == 2      \* entries in one extra-flag list
MaxInfoLines == 3  \* lines in one -Qi or -Si text

-----------------------------------------------------------------------------
(* Python values. *)

None == <<"None">>
PyFalse == <<"False">>
PyInt42 == <<"42">>

NL == "\n"
Whitespace == {" ", "\t", NL}

\* bool(x) of a str or None
Truthy(x) == x # None /\ x # PyFalse /\ x # <<>>

RECURSIVE JoinLines(_)
\* the text whose lines are ls, each line ended by a newline
JoinLines(ls) == IF ls = <<>> THEN <<>> ELSE Head(ls) \o <<NL>> \o JoinLines(Tail(ls))

\* the first index at which sep occurs in s, 0 when it does not
Find(s, sep) ==
    LET hits == {i \in 1..(Len(s) - Len(sep) + 1) : SubSeq(s, i, i + Len(sep) - 1) = sep}
    IN IF hits = {} THEN 0 ELSE CHOOSE i \in hits : \A j \in hits : i <= j

RECURSIVE str_split(_, _)
\* s.split(sep), sep given: adjacent separators delimit empty strings
str_split(s, sep) ==
    LET i == Find(s, sep)
    IN IF i = 0 THEN <<s>>
       ELSE <<SubSeq(s, 1, i - 1)>> \o str_split(SubSeq(s, i + Len(sep), Len(s)), sep)

\* s.split(sep, 1)
str_split1(s, sep) ==
    LET i == Find(s, sep)
    IN IF i = 0 THEN <<s>>
       ELSE <<SubSeq(s, 1, i - 1), SubSeq(s, i + Len(sep), Len(s))>>

\* not s.split(): s holds nothing but whitespace
IsBlank(s) == \A i \in 1..Len(s) : s[i] \in Whitespace

RECURSIVE str_lstrip(_)
str_lstrip(s) == IF s # <<>> /\ Head(s) \in Whitespace THEN str_lstrip(Tail(s)) ELSE s

RECURSIVE str_rstrip(_, _)
\* s.rstrip(chars)
str_rstrip(s, chars) ==
    IF s # <<>> /\ s[Len(s)] \in chars THEN str_rstrip(SubSeq(s, 1, Len(s) - 1), chars) ELSE s

\* s.strip()
str_strip(s) == str_rstrip(str_lstrip(s), Whitespace)

\* the characters shlex.quote leaves alone: [\w@%+=:,./-]
SafeChars == {"a", "b", "c", "1", "2", "_", "@", "%", "+", "=", ":", ",", ".", "/", "-"}

RECURSIVE EscapeQuotes(_)
\* s.replace("'", "'\"'\"'")
EscapeQuotes(s) ==
    IF s = <<>> THEN <<>>
    ELSE (IF Head(s) = "'" THEN <<"'", "\"", "'", "\"", "'">> ELSE <<Head(s)>>)
         \o EscapeQuotes(Tail(s))

\* shlex.quote(s)
quote(s) ==
    IF s = <<>> THEN <<"'", "'">>
    ELSE IF \A i \in 1..Len(s) : s[i] \in SafeChars THEN s
    ELSE <<"'">> \o EscapeQuotes(s) \o <<"'">>

RECURSIVE MapQuote(_)
\* [quote(s) for s in pkgs]
MapQuote(pkgs) == IF pkgs = <<>> THEN <<>> ELSE <<quote(Head(pkgs))>> \o MapQuote(Tail(pkgs))

RECURSIVE FilterTruthy(_)
\* [x for x in xs if x]
FilterTruthy(xs) ==
    IF xs = <<>> THEN <<>>
    ELSE (IF Truthy(Head(xs)) THEN <<Head(xs)>> ELSE <<>>) \o FilterTruthy(Tail(xs))

\* dict operations; a dict is a sequence of [key, val] in insertion order
DictHas(d, k) == \E i \in 1..Len(d) : d[i].key = k
DictIdx(d, k) == CHOOSE i \in 1..Len(d) : d[i].key = k
DictGet(d, k) == d[DictIdx(d, k)].val
DictSet(d, k, v) ==
    IF DictHas(d, k) THEN [d EXCEPT ![DictIdx(d, k)] = [key |-> k, val |-> v]]
    ELSE Append(d, [key |-> k, val |-> v])

RECURSIVE DictValues(_)
\* [d[x] for x in d]
DictValues(d) == IF d = <<>> THEN <<>> ELSE <<Head(d).val>> \o DictValues(Tail(d))

-----------------------------------------------------------------------------
(* How an operation ends. *)

\* one field per type of value returned, so that any two outcomes compare
ReturnNone == [kind |-> "return", none |-> TRUE]             \* None
Return(v) == [kind |-> "return", value |-> v]                \* a list of records, a dict
ReturnNames(l) == [kind |-> "return", names |-> l]           \* a list of str
ReturnBool(b) == [kind |-> "return", bool |-> b]             \* True or False
ReturnBin(path) == [kind |-> "return", bin |-> path]         \* a path or None
ReturnData(d) == [kind |-> "return", data |-> d]             \* the data of pacman()
Raise(exc, msg) == [kind |-> "raise", exc |-> exc, msg |-> msg]

-----------------------------------------------------------------------------
(* The subprocess wrapper. *)

NOCONFIRM == <<"--noconfirm">>

ListOf(items) == [list |-> TRUE, items |-> items]
Bare(x) == [list |-> FALSE, val |-> x]
NoPkgs == ListOf(<<>>)        \* the default pkgs=[]

\* not pkgs
PkgsFalsy(pkgs) == IF pkgs.list THEN pkgs.items = <<>> ELSE ~Truthy(pkgs.val)

\* any(eflgs)
AnyTruthy(eflgs) == \E i \in 1..Len(eflgs) : Truthy(eflgs[i])

\* the argument vector with the extra flags appended as they came
pacman_cmd_Unfiltered(flags, pkgs, eflgs, pacman_bin) ==
    LET base == <<pacman_bin, NOCONFIRM, flags>>
        cmd == IF PkgsFalsy(pkgs) THEN base
               ELSE IF pkgs.list THEN base \o MapQuote(pkgs.items)
               ELSE base \o <<pkgs.val>>
    IN cmd \o eflgs

\* the argument vector pacman() builds
pacman_cmd(flags, pkgs, eflgs, pacman_bin) ==
    LET base == <<pacman_bin, NOCONFIRM, flags>>
        cmd == IF PkgsFalsy(pkgs) THEN base
               ELSE IF pkgs.list THEN base \o MapQuote(pkgs.items)
               ELSE base \o <<pkgs.val>>
    IN IF eflgs # <<>> /\ AnyTruthy(eflgs) THEN cmd \o FilterTruthy(eflgs) ELSE cmd

\* pacman(flags, pkgs, eflgs, pacman_bin) when the process it spawns answers proc,
\* [code, out, err] as the tool wrote them: the command spawned and the data returned
pacman(flags, pkgs, eflgs, pacman_bin, proc) ==
    [cmd |-> pacman_cmd(flags, pkgs, eflgs, pacman_bin),
     proc |-> proc,
     code |-> proc.code,
     stdout |-> proc.out,
     stderr |-> str_rstrip(proc.err, {NL})]

-----------------------------------------------------------------------------
(* The facade operations.  Each is a function of its arguments and of env, *)
(* the answers of the processes it spawns, in order; it yields the         *)
(* processes spawned and the outcome.                                      *)

Ended(procs, out) == [spawned |-> procs, outcome |-> out]

\* a message that leaves the stderr out
Msg_NoStderr(prefix, stderr) == <<prefix>>

Msg(prefix, stderr) == <<prefix>> \o stderr

install(packages, needed, bin, env) ==
    LET s == pacman(<<"-S">>, packages, <<IF needed THEN <<"--needed">> ELSE None>>, bin, env[1])
    IN IF s.code # 0
       THEN Ended(<<s>>, Raise("Exception", Msg("Failed to install: ", s.stderr)))
       ELSE Ended(<<s>>, ReturnNone)

refresh(bin, env) ==
    LET s == pacman(<<"-Sy">>, NoPkgs, <<>>, bin, env[1])
    IN IF s.code # 0
       THEN Ended(<<s>>, Raise("Exception", Msg("Failed to refresh database: ", s.stderr)))
       ELSE Ended(<<s>>, ReturnNone)

\* with packages, install() runs and, when it returns, the local s was never
\* assigned: reading it raises UnboundLocalError
upgrade(packages, bin, env) ==
    IF ~PkgsFalsy(packages)
    THEN LET i == install(packages, TRUE, bin, env)
         IN IF i.outcome.kind = "raise" THEN i
            ELSE Ended(i.spawned, Raise("UnboundLocalError", <<"s">>))
    ELSE LET s == pacman(<<"-Su">>, NoPkgs, <<>>, bin, env[1])
         IN IF s.code # 0
            THEN Ended(<<s>>, Raise("Exception", Msg("Failed to upgrade packages: ", s.stderr)))
            ELSE Ended(<<s>>, ReturnNone)

remove(packages, purge, bin, env) ==
    LET s == pacman(IF purge THEN <<"-Rcn">> ELSE <<"-Rc">>, packages, <<>>, bin, env[1])
    IN IF s.code # 0
       THEN Ended(<<s>>, Raise("Exception", Msg("Failed to remove: ", s.stderr)))
       ELSE Ended(<<s>>, ReturnNone)

\* the outcome of a parsing loop: the value built, or the exception of the line
\* it stopped at
Parsed(v) == [ok |-> TRUE, val |-> v]
ParseError(exc) == [ok |-> FALSE, exc |-> exc]

RECURSIVE installed_loop(_, _)
\* the loop over the lines of -Q that fills interim
installed_loop(lines, interim) ==
    IF lines = <<>> THEN Parsed(interim)
    ELSE IF IsBlank(Head(lines)) THEN installed_loop(Tail(lines), interim)
    ELSE LET x == str_split(Head(lines), <<" ">>)
         IN IF Len(x) < 2 THEN ParseError("IndexError")
            ELSE installed_loop(Tail(lines),
                     DictSet(interim, x[1],
                             [id |-> x[1], version |-> x[2], upgradable |-> PyFalse,
                              installed |-> TRUE]))

\* upgradable set without comparing the versions
set_upgradable_Always(rec, version) == [rec EXCEPT !.upgradable = version]

\* interim[name]["upgradable"] = v when the versions differ
set_upgradable(rec, version) ==
    IF rec.version # version THEN [rec EXCEPT !.upgradable = version] ELSE rec

\* interim[name]["repo"] = repo
set_repo(rec, repo) ==
    [id |-> rec.id, version |-> rec.version, upgradable |-> rec.upgradable,
     installed |-> rec.installed, repo |-> repo]

RECURSIVE available_loop(_, _, _)
\* the loop of get_all over the lines of -Sl
available_loop(lines, interim, results) ==
    IF lines = <<>> THEN Parsed([interim |-> interim, results |-> results])
    ELSE IF IsBlank(Head(lines)) THEN available_loop(Tail(lines), interim, results)
    ELSE LET x == str_split(Head(lines), <<" ">>)
         IN IF Len(x) < 3 THEN ParseError("IndexError")
            ELSE IF DictHas(interim, x[2])
            THEN available_loop(Tail(lines),
                     DictSet(interim, x[2],
                             set_upgradable(set_repo(DictGet(interim, x[2]), x[1]), x[3])),
                     results)
            ELSE available_loop(Tail(lines), interim,
                     Append(results, [id |-> x[2], repo |-> x[1], version |-> x[3],
                                      upgradable |-> PyFalse, installed |-> FALSE]))

get_all(bin, env) ==
    LET s1 == pacman(<<"-Q">>, NoPkgs, <<>>, bin, env[1])
        s2 == pacman(<<"-Sl">>, NoPkgs, <<>>, bin, env[2])
        p1 == installed_loop(str_split(s1.stdout, <<NL>>), <<>>)
        p2 == available_loop(str_split(s2.stdout, <<NL>>), p1.val, <<>>)
    IN IF s1.code # 0
       THEN Ended(<<s1>>, Raise("Exception", Msg("Failed to get installed list: ", s1.stderr)))
       ELSE IF ~p1.ok THEN Ended(<<s1>>, Raise(p1.exc, <<>>))
       ELSE IF s2.code # 0
       THEN Ended(<<s1, s2>>, Raise("Exception", Msg("Failed to get available list: ", s2.stderr)))
       ELSE IF ~p2.ok THEN Ended(<<s1, s2>>, Raise(p2.exc, <<>>))
       ELSE Ended(<<s1, s2>>, Return(p2.val.results \o DictValues(p2.val.interim)))

RECURSIVE upgradable_loop(_, _)
\* the loop of get_installed over the lines of -Qu
upgradable_loop(lines, interim) ==
    IF lines = <<>> THEN Parsed(interim)
    ELSE IF IsBlank(Head(lines)) THEN upgradable_loop(Tail(lines), interim)
    ELSE LET x == str_split(Head(lines), <<" ", "-", ">", " ">>)
             name == str_split(x[1], <<" ">>)[1]
         IN IF ~DictHas(interim, name) THEN upgradable_loop(Tail(lines), interim)
            ELSE IF Len(x) < 2 THEN ParseError("IndexError")
            ELSE upgradable_loop(Tail(lines),
                     DictSet(interim, name,
                             [DictGet(interim, name) EXCEPT !.upgradable = x[2]]))

get_installed(bin, env) ==
    LET s1 == pacman(<<"-Q">>, NoPkgs, <<>>, bin, env[1])
        s2 == pacman(<<"-Qu">>, NoPkgs, <<>>, bin, env[2])
        p1 == installed_loop(str_split(s1.stdout, <<NL>>), <<>>)
        p2 == upgradable_loop(str_split(s2.stdout, <<NL>>), p1.val)
    IN IF s1.code # 0
       THEN Ended(<<s1>>, Raise("Exception", Msg("Failed to get installed list: ", s1.stderr)))
       ELSE IF ~p1.ok THEN Ended(<<s1>>, Raise(p1.exc, <<>>))
       ELSE IF s2.code # 0 /\ Truthy(s2.stderr)
       THEN Ended(<<s1, s2>>, Raise("Exception", Msg("Failed to get upgradable list: ", s2.stderr)))
       ELSE IF ~p2.ok THEN Ended(<<s1, s2>>, Raise(p2.exc, <<>>))
       ELSE Ended(<<s1, s2>>, Return(DictValues(p2.val)))

RECURSIVE listing_loop(_, _)
\* the loop of get_available over the lines of -Sl
listing_loop(lines, results) ==
    IF lines = <<>> THEN Parsed(results)
    ELSE IF IsBlank(Head(lines)) THEN listing_loop(Tail(lines), results)
    ELSE LET x == str_split(Head(lines), <<" ">>)
         IN IF Len(x) < 3 THEN ParseError("IndexError")
            ELSE listing_loop(Tail(lines),
                     Append(results, [id |-> x[2], repo |-> x[1], version |-> x[3]]))

get_available(bin, env) ==
    LET s == pacman(<<"-Sl">>, NoPkgs, <<>>, bin, env[1])
        p == listing_loop(str_split(s.stdout, <<NL>>), <<>>)
    IN IF s.code # 0
       THEN Ended(<<s>>, Raise("Exception", Msg("Failed to get available list: ", s.stderr)))
       ELSE IF ~p.ok THEN Ended(<<s>>, Raise(p.exc, <<>>))
       ELSE Ended(<<s>>, Return(p.val))

\* is_installed(package), as one process
is_installed(package, bin, proc) == pacman(<<"-Q">>, Bare(package), <<>>, bin, proc)

RECURSIVE info_loop(_, _)
\* the loop of get_info over the lines of -Qi or -Si; interim is a list of
\* (name, value) pairs
info_loop(lines, interim) ==
    IF lines = <<>> THEN Parsed(interim)
    ELSE IF IsBlank(Head(lines)) THEN info_loop(Tail(lines), interim)
    ELSE IF \E i \in 1..Len(Head(lines)) : Head(lines)[i] = ":"
    THEN LET x == str_split1(Head(lines), <<":">>)
         IN info_loop(Tail(lines), Append(interim, <<str_strip(x[1]), str_strip(x[2])>>))
    ELSE IF interim = <<>> THEN ParseError("IndexError")
    ELSE LET data == interim[Len(interim)]
         IN info_loop(Tail(lines),
                [interim EXCEPT ![Len(interim)] =
                     <<data[1], data[2] \o <<" ", " ">> \o str_strip(Head(lines))>>])

RECURSIVE info_dict(_, _)
\* result[x[0]] = x[1] for x in interim
info_dict(interim, result) ==
    IF interim = <<>> THEN result
    ELSE info_dict(Tail(interim), DictSet(result, Head(interim)[1], Head(interim)[2]))

\* bin is the default of pacman(), which is_installed() runs with; info_bin is
\* get_info's own pacman_bin parameter
get_info(package, info_bin, bin, env) ==
    LET s0 == is_installed(package, bin, env[1])
        s == pacman(IF s0.code = 0 THEN <<"-Qi">> ELSE <<"-Si">>, Bare(package), <<>>,
                    info_bin, env[2])
        p == info_loop(str_split(s.stdout, <<NL>>), <<>>)
    IN IF s.code # 0
       THEN Ended(<<s0, s>>, Raise("Exception", Msg("Failed to get info: ", s.stderr)))
       ELSE IF ~p.ok THEN Ended(<<s0, s>>, Raise(p.exc, <<>>))
       ELSE Ended(<<s0, s>>, Return(info_dict(p.val, <<>>)))

RECURSIVE FilterNonEmpty(_)
\* [x for x in lines if x]
FilterNonEmpty(lines) ==
    IF lines = <<>> THEN <<>>
    ELSE (IF Head(lines) # <<>> THEN <<Head(lines)>> ELSE <<>>) \o FilterNonEmpty(Tail(lines))

needs_for(packages, bin, env) ==
    LET s == pacman(<<"-Sp">>, packages, <<<<"--print-format">>, <<"%n">>>>, bin, env[1])
    IN IF s.code # 0
       THEN Ended(<<s>>, Raise("Exception", Msg("Failed to get requirements: ", s.stderr)))
       ELSE Ended(<<s>>, ReturnNames(FilterNonEmpty(str_split(s.stdout, <<NL>>))))

depends_for(packages, bin, env) ==
    LET s == pacman(<<"-Rpc">>, packages, <<<<"--print-format">>, <<"%n">>>>, bin, env[1])
    IN IF s.code # 0
       THEN Ended(<<s>>, Raise("Exception", Msg("Failed to get depends: ", s.stderr)))
       ELSE Ended(<<s>>, ReturnNames(FilterNonEmpty(str_split(s.stdout, <<NL>>))))

-----------------------------------------------------------------------------
(* The binary path: the files of the machine, get_bin and set_bin. *)

BinPacman == <<"/usr/bin/pacman">>     \* what shutil.which("pacman") found at load
BinYay == <<"/usr/bin/yay">>           \* an executable AUR helper
Conf == <<"/etc/pacman.conf">>         \* a file that is not executable
Nowhere == <<"/nowhere">>              \* no such file

\* what a caller may hand to set_bin
SetBinArgs == {BinYay, <<"yay">>, BinPacman, Conf, Nowhere, PyInt42}

\* isinstance(path, str)
isinstance_str(path) == path \notin {PyInt42, None}

\* os.path.isfile(path), path a str
os_path_isfile(path) == path \in {BinPacman, BinYay, Conf}

\* shutil.which(path): the executable a command name or a path resolves to
shutil_which(path) ==
    IF path \in {BinYay, <<"yay">>} THEN BinYay
    ELSE IF path \in {BinPacman, <<"pacman">>} THEN BinPacman
    ELSE None

\* path resolves to an existing executable file
Resolves(path) == isinstance_str(path) /\ shutil_which(path) # None

\* set_bin(path) with the global at cur: the global afterwards and the outcome.
\* os.path.isfile(None) raises TypeError.
set_bin(path, cur) ==
    IF ~isinstance_str(path)
    THEN [bin |-> cur, outcome |-> Raise("IOError", <<"This executable does not exist.">>)]
    ELSE IF os_path_isfile(path)
    THEN [bin |-> shutil_which(path), outcome |-> ReturnNone]
    ELSE IF shutil_which(path) = None
    THEN [bin |-> cur, outcome |-> Raise("TypeError", <<>>)]
    ELSE IF os_path_isfile(shutil_which(path))
    THEN [bin |-> shutil_which(path), outcome |-> ReturnNone]
    ELSE [bin |-> cur, outcome |-> Raise("IOError", <<"This executable does not exist.">>)]

-----------------------------------------------------------------------------
(* The inputs: arguments of the callers, answers of the tool. *)

SeqUpTo(S, n) == UNION {[1..k -> S] : k \in 0..n}

\* a name quote() leaves alone, one it must wrap and escape, and the empty name
PkgNames == {<<"a">>, <<"a", " ", "'">>, <<>>}
PkgArgs == {ListOf(l) : l \in SeqUpTo(PkgNames, MaxPkgs)}
               \cup {Bare(<<"a">>), Bare(<<"a", " ", "'">>), Bare(<<>>)}
Eflags == {None, <<>>, <<"--needed">>, <<"%n">>}
EflgArgs == SeqUpTo(Eflags, MaxEflgs)

Stderrs == {<<>>, <<"e", NL>>}
TextsUpTo(lineset, n) == {JoinLines(ls) : ls \in SeqUpTo(lineset, n)}
Texts(lineset) == TextsUpTo(lineset, MaxLines)
Failing == {[code |-> 1, out |-> <<>>, err |-> e] : e \in Stderrs}
Succeeding(texts) == {[code |-> 0, out |-> t, err |-> <<>>] : t \in texts}

\* lines of -Q: "name version", an empty line, a line that lacks the version
QLines == {<<"a", " ", "1">>, <<"b", " ", "1">>, <<"a", " ", "2">>, <<>>, <<"a">>}
\* lines of -Sl: "repo name version", one with pacman's "[installed]" mark, a
\* line of whitespace, a line cut short
SlLines == {<<"r", " ", "a", " ", "1">>, <<"r", " ", "a", " ", "2">>,
            <<"s", " ", "a", " ", "1">>, <<"r", " ", "c", " ", "1">>,
            <<"s", " ", "c", " ", "1">>, <<"r", " ", "b", " ", "1", " ", "[installed]">>,
            <<"\t">>, <<"r", " ", "a">>}
\* lines of -Qu: "name version -> version", an empty line, a line with no arrow
QuLines == {<<"a", " ", "1", " ", "-", ">", " ", "2">>,
            <<"b", " ", "1", " ", "-", ">", " ", "3">>,
            <<"c", " ", "1", " ", "-", ">", " ", "2">>,
            <<>>, <<"a", " ", "1">>}
\* lines of -Qi and -Si: fields, continuation lines, a line of whitespace
InfoLines == {<<"N", ":", " ", "a">>, <<"N", ":", "b">>, <<" ", "c">>, <<" ", "d", " ">>, <<"\t">>}
\* lines of -Sp and -Rpc with --print-format %n
NameLines == {<<"a">>, <<"b">>, <<>>}

QAnswers == Succeeding(Texts(QLines)) \cup Failing
SlAnswers == Succeeding(Texts(SlLines)) \cup Failing
\* -Qu ends with code 1 and no stderr when nothing is upgradable
QuAnswers == Succeeding(Texts(QuLines)) \cup Failing
                 \cup {[code |-> 1, out |-> t, err |-> <<>>] : t \in Texts(QuLines)}
InfoAnswers == Succeeding(TextsUpTo(InfoLines, MaxInfoLines)) \cup Failing
NameAnswers == Succeeding(Texts(NameLines)) \cup Failing
PlainAnswers == Succeeding({<<"o", NL>>})
                    \cup {[code |-> 1, out |-> <<>>, err |-> <<>>],
                          [code |-> 1, out |-> <<"o", NL>>, err |-> <<"e", NL, NL>>]}
\* the answers to the probe of is_installed
ProbeAnswers == {[code |-> c, out |-> <<>>, err |-> <<>>] : c \in {0, 1}}

-----------------------------------------------------------------------------
(* The state machine: a caller runs one operation after another. *)

\* no call is under way: the caller has taken the last outcome
Idle == [op |-> "none"]

Init ==
    /\ PACMAN_BIN = BinPacman
    /\ default_bin = BinPacman
    /\ call = Idle
    /\ spawned = <<>>
    /\ outcome = ReturnNone

\* an operation that leaves the global alone ends as r says
Ends(c, r) ==
    /\ call' = c
    /\ spawned' = r.spawned
    /\ outcome' = r.outcome
    /\ UNCHANGED <<PACMAN_BIN, default_bin>>

GetBin ==
    /\ call = Idle
    /\ Ends([op |-> "get_bin"], Ended(<<>>, ReturnBin(PACMAN_BIN)))

SetBin ==
    /\ call = Idle
    /\ \E path \in SetBinArgs :
           LET r == set_bin(path, PACMAN_BIN)
           IN /\ PACMAN_BIN' = r.bin
              /\ call' = [op |-> "set_bin", path |-> path]
              /\ spawned' = <<>>
              /\ outcome' = r.outcome
              /\ UNCHANGED default_bin

Install ==
    /\ call = Idle
    /\ \E packages \in PkgArgs, needed \in BOOLEAN, a \in PlainAnswers :
           Ends([op |-> "install", packages |-> packages, needed |-> needed],
                install(packages, needed, default_bin, <<a>>))

Refresh ==
    /\ call = Idle
    /\ \E a \in PlainAnswers : Ends([op |-> "refresh"], refresh(default_bin, <<a>>))

Upgrade ==
    /\ call = Idle
    /\ \E packages \in PkgArgs, a \in PlainAnswers :
           Ends([op |-> "upgrade", packages |-> packages],
                upgrade(packages, default_bin, <<a>>))

Remove ==
    /\ call = Idle
    /\ \E packages \in PkgArgs, purge \in BOOLEAN, a \in PlainAnswers :
           Ends([op |-> "remove", packages |-> packages, purge |-> purge],
                remove(packages, purge, default_bin, <<a>>))

GetAll ==
    /\ call = Idle
    /\ \E a1 \in QAnswers, a2 \in SlAnswers :
           Ends([op |-> "get_all"], get_all(default_bin, <<a1, a2>>))

GetInstalled ==
    /\ call = Idle
    /\ \E a1 \in QAnswers, a2 \in QuAnswers :
           Ends([op |-> "get_installed"], get_installed(default_bin, <<a1, a2>>))

GetAvailable ==
    /\ call = Idle
    /\ \E a \in SlAnswers :
           Ends([op |-> "get_available"], get_available(default_bin, <<a>>))

GetInfo ==
    /\ call = Idle
    /\ \E package \in {<<"a">>}, a1 \in ProbeAnswers, a2 \in InfoAnswers :
           Ends([op |-> "get_info", package |-> package],
                get_info(package, default_bin, default_bin, <<a1, a2>>))

NeedsFor ==
    /\ call = Idle
    /\ \E packages \in PkgArgs, a \in NameAnswers :
           Ends([op |-> "needs_for", packages |-> packages],
                needs_for(packages, default_bin, <<a>>))

DependsFor ==
    /\ call = Idle
    /\ \E packages \in PkgArgs, a \in NameAnswers :
           Ends([op |-> "depends_for", packages |-> packages],
                depends_for(packages, default_bin, <<a>>))

IsInstalled ==
    /\ call = Idle
    /\ \E package \in {<<"a">>, <<"a", " ", "'">>}, a \in PlainAnswers :
           LET s == is_installed(package, default_bin, a)
           IN Ends([op |-> "is_installed", package |-> package],
                   Ended(<<s>>, ReturnBool(s.code = 0)))

\* pacman() called directly, with or without a pacman_bin of the caller's
Pacman ==
    /\ call = Idle
    /\ \E flags \in {<<"-S">>}, pkgs \in PkgArgs, eflgs \in EflgArgs,
          pacman_bin \in {default_bin, BinYay}, a \in PlainAnswers :
           LET s == pacman(flags, pkgs, eflgs, pacman_bin, a)
           IN Ends([op |-> "pacman", flags |-> flags, pkgs |-> pkgs, eflgs |-> eflgs,
                    pacman_bin |-> pacman_bin],
                   Ended(<<s>>,
                         ReturnData([code |-> s.code, stdout |-> s.stdout,
                                     stderr |-> s.stderr])))

\* the caller takes the outcome of the call and is ready for the next one
Returned ==
    /\ call # Idle
    /\ call' = Idle
    /\ spawned' = <<>>
    /\ outcome' = ReturnNone
    /\ UNCHANGED <<PACMAN_BIN, default_bin>>

Next ==
    \/ GetBin
    \/ SetBin
    \/ Install
    \/ Refresh
    \/ Upgrade
    \/ Remove
    \/ GetAll
    \/ GetInstalled
    \/ GetAvailable
    \/ GetInfo
    \/ NeedsFor
    \/ DependsFor
    \/ IsInstalled
    \/ Pacman
    \/ Returned

Spec == Init /\ [][Next]_vars

-----------------------------------------------------------------------------
(* Reading a call back, for the statements below: the lines and fields of  *)
(* the texts the tool wrote, found by position rather than by splitting.   *)

FacadeOps == {"install", "refresh", "upgrade", "remove", "get_all", "get_installed",
              "get_available", "get_info", "needs_for", "depends_for", "is_installed"}

\* the positions at which a line of text t starts
LineStarts(t) == {i \in 1..Len(t) : i = 1 \/ t[i - 1] = NL}

\* the line of t that starts at i, without its newline
LineAt(t, i) ==
    LET ends == {j \in i..(Len(t) + 1) : j = Len(t) + 1 \/ t[j] = NL}
        e == CHOOSE j \in ends : \A k \in ends : j <= k
    IN SubSeq(t, i, e - 1)

\* the starts of the lines of t that are not blank
RowStarts(t) == {i \in LineStarts(t) : ~IsBlank(LineAt(t, i))}

\* the n-th field of a line whose fields are separated by single spaces
Field(line, n) ==
    LET cuts == {0, Len(line) + 1} \cup {i \in 1..Len(line) : line[i] = " "}
        lo == CHOOSE c \in cuts : Cardinality({d \in cuts : d < c}) = n - 1
        hi == CHOOSE c \in cuts : Cardinality({d \in cuts : d < c}) = n
    IN SubSeq(line, lo + 1, hi - 1)

NumFields(line) == Cardinality({i \in 1..Len(line) : line[i] = " "}) + 1

IsToken(s) == s # <<>> /\ \A i \in 1..Len(s) : s[i] \notin Whitespace

\* every row of t has at least n fields, the first n of them tokens
WellFormed(t, n) ==
    \A i \in RowStarts(t) :
        /\ NumFields(LineAt(t, i)) >= n
        /\ \A k \in 1..n : IsToken(Field(LineAt(t, i), k))

\* the names in column n of the rows of t
NamesIn(t, n) == {Field(LineAt(t, i), n) : i \in RowStarts(t)}

\* the starts of the rows of t that name package name in column n
RowsOf(t, n, name) == {i \in RowStarts(t) : Field(LineAt(t, i), n) = name}

\* get_all returned, having read well-formed outputs of -Q and -Sl
GetAllReturned ==
    /\ call.op = "get_all"
    /\ outcome.kind = "return"
    /\ WellFormed(spawned[1].stdout, 2)
    /\ WellFormed(spawned[2].stdout, 3)

-----------------------------------------------------------------------------
(* The statements. *)

\* C1: the list get_all returns holds no two records with the same id, also
\* when a name is on more than one line of -Sl.
C1_UniqueIds ==
    (call.op = "get_all" /\ outcome.kind = "return") =>
        \A i, j \in 1..Len(outcome.value) :
            i # j => outcome.value[i].id # outcome.value[j].id

\* C2: upgrade(packages) never reads an unset status: with packages it ends as
\* install(packages) does, returning when the install exits 0 and raising
\* install's error when it does not; with none it runs -Su once and raises iff
\* that exits non-zero.
C2_UpgradeStatus ==
    call.op = "upgrade" =>
        /\ Len(spawned) = 1
        /\ outcome.kind = "raise" <=> spawned[1].code # 0
        /\ IF PkgsFalsy(call.packages)
           THEN spawned[1].cmd[3] = <<"-Su">>
           ELSE /\ spawned[1].cmd[3] = <<"-S">>
                /\ spawned[1].code # 0 =>
                       outcome = Raise("Exception", Msg("Failed to install: ", spawned[1].stderr))

\* C3: every process a facade operation spawns runs the binary get_bin()
\* returns at the time of the call, whatever set_bin calls came before.  Taken
\* where the selected binary is a path, as after a set_bin that resolved.
C3_SelectedBinary ==
    (call.op \in FacadeOps /\ PACMAN_BIN # None) =>
        \A i \in 1..Len(spawned) : spawned[i].cmd[1] = PACMAN_BIN

\* C4: set_bin(path) ends in one of two ways: path resolves to an existing
\* executable and the selected binary becomes it, or it raises IOError and
\* the selected binary is as before; so set_bin never leaves None behind.
C4_SetBinOutcomes ==
    [][call'.op = "set_bin" =>
           /\ IF Resolves(call'.path)
              THEN outcome'.kind = "return" /\ PACMAN_BIN' = shutil_which(call'.path)
              ELSE /\ outcome'.kind = "raise"
                   /\ outcome'.exc = "IOError"
                   /\ PACMAN_BIN' = PACMAN_BIN
           /\ PACMAN_BIN' # None]_vars

\* the operations of C5, and the operation's own error: the Exception whose
\* message is a "Failed to ..." prefix followed by the stderr of the result
ErrorOps == {"install", "refresh", "remove", "get_all", "get_available", "get_info",
             "needs_for", "depends_for"}
DomainError == outcome.kind = "raise" /\ outcome.exc = "Exception"
FailedAt(i) == spawned[i].code # 0
CarriesStderrOf(i) == SubSeq(outcome.msg, 2, Len(outcome.msg)) = spawned[i].stderr

\* the part of C5 about the -Qu query of get_installed, once -Q was read: an
\* error iff the exit code is non-zero and stderr is not empty; with no error
\* and nothing on stdout, every record has upgradable = False
UpgradeListPolicy ==
    (call.op = "get_installed" /\ Len(spawned) = 2) =>
        /\ DomainError <=> (FailedAt(2) /\ spawned[2].stderr # <<>>)
        /\ DomainError => CarriesStderrOf(2)
        /\ (~DomainError /\ spawned[2].stdout = <<>>) =>
               /\ outcome.kind = "return"
               /\ \A i \in 1..Len(outcome.value) : outcome.value[i].upgradable = PyFalse

Checked == IF call.op = "get_info" THEN {2} ELSE 1..Len(spawned)

Out(i) == spawned[i].stdout

\* each name of column n is on one row of t only
NamesOnce(t, n) == \A name \in NamesIn(t, n) : Cardinality(RowsOf(t, n, name)) = 1

\* the row of t that names package name in column n, when there is one only
RowOf(t, n, name) == LineAt(t, CHOOSE i \in RowsOf(t, n, name) : TRUE)

\* the record C6 expects for a name, from the rows of -Q (q) and -Sl (sl)
ExpectedRecord(q, sl, name) ==
    LET qrow == RowOf(q, 1, name)
        slrow == RowOf(sl, 2, name)
    IN IF name \in NamesIn(q, 1) /\ name \in NamesIn(sl, 2)
       THEN [id |-> name, version |-> Field(qrow, 2), repo |-> Field(slrow, 1),
             upgradable |-> IF Field(slrow, 3) # Field(qrow, 2) THEN Field(slrow, 3)
                            ELSE PyFalse,
             installed |-> TRUE]
       ELSE IF name \in NamesIn(q, 1)
       THEN [id |-> name, version |-> Field(qrow, 2), upgradable |-> PyFalse,
             installed |-> TRUE]
       ELSE [id |-> name, repo |-> Field(slrow, 1), version |-> Field(slrow, 3),
             upgradable |-> PyFalse, installed |-> FALSE]

\* C6: for well-formed outputs of -Q and -Sl that name each package once,
\* get_all returns one record per name of either output: installed and
\* available gives the installed version, the repo, and the available version
\* as upgradable if it differs, else False; installed only gives no repo and
\* upgradable False; available only gives installed False, upgradable False.
C6_Reconciliation ==
    (/\ call.op = "get_all"
     /\ spawned[1].code = 0
     /\ WellFormed(Out(1), 2)
     /\ NamesOnce(Out(1), 1)) =>
        /\ Len(spawned) = 2
        /\ (/\ spawned[2].code = 0
            /\ WellFormed(Out(2), 3)
            /\ NamesOnce(Out(2), 2)) =>
               /\ outcome.kind = "return"
               /\ \A name \in NamesIn(Out(1), 1) \cup NamesIn(Out(2), 2) :
                      Cardinality({i \in 1..Len(outcome.value) :
                                       outcome.value[i].id = name}) = 1
               /\ \A i \in 1..Len(outcome.value) :
                      /\ outcome.value[i].id \in NamesIn(Out(1), 1) \cup NamesIn(Out(2), 2)
                      /\ outcome.value[i] =
                             ExpectedRecord(Out(1), Out(2), outcome.value[i].id)
                      /\ ~outcome.value[i].installed =>
                             outcome.value[i].upgradable = PyFalse

\* get_all returned a package to upgrade, one installed only and one available
\* only
C6_Witness ==
    /\ call.op = "get_all"
    /\ Out(1) = <<"a", " ", "1", NL, "b", " ", "1", NL>>
    /\ Out(2) = <<"r", " ", "a", " ", "2", NL, "r", " ", "c", " ", "1", NL>>
    /\ outcome.kind = "return"
    /\ Len(outcome.value) = 3
    /\ \E i \in 1..3 : outcome.value[i].id = <<"a">> /\ outcome.value[i].upgradable = <<"2">>

\* C7: pacman() spawns one process, with the binary, "--noconfirm", the flag,
\* then the packages (each quoted when they come as a list, a bare value as it
\* is, none when empty), then the extra flags that are not empty or None, in
\* their order; it returns the exit code, the stdout, and the stderr without
\* its trailing newlines.
C7_ArgumentVector ==
    call.op = "pacman" =>
        LET pkgs == call.pkgs
            pkgpart == IF pkgs.list THEN [i \in 1..Len(pkgs.items) |-> quote(pkgs.items[i])]
                       ELSE IF pkgs.val \in {<<>>, None} THEN <<>>
                       ELSE <<pkgs.val>>
            eflpart == SelectSeq(call.eflgs, LAMBDA x : x # None /\ x # <<>>)
            raw == spawned[1].proc
            err == outcome.data.stderr
        IN /\ Len(spawned) = 1
           /\ spawned[1].cmd = <<call.pacman_bin, <<"--noconfirm">>, call.flags>>
                                   \o pkgpart \o eflpart
           /\ outcome.kind = "return"
           /\ outcome.data.code = raw.code
           /\ outcome.data.stdout = raw.out
           /\ \E k \in 0..Len(raw.err) :
                  /\ raw.err = err \o [i \in 1..k |-> NL]
                  /\ err = <<>> \/ err[Len(err)] # NL

\* pacman() ran with a list of packages of which one needs quoting, an extra
\* flag between two empty ones' worth of noise, and a stderr ending in newlines
C7_Witness ==
    /\ call.op = "pacman"
    /\ call.pkgs = ListOf(<<<<"a">>, <<"a", " ", "'">>>>)
    /\ call.eflgs = <<None, <<"%n">>>>
    /\ spawned[1].cmd = <<call.pacman_bin, <<"--noconfirm">>, <<"-S">>, <<"a">>,
                          <<"'", "a", " ", "'", "\"", "'", "\"", "'", "'">>, <<"%n">>>>
    /\ spawned[1].proc.err = <<"e", NL, NL>>
    /\ outcome.data.stderr = <<"e">>

\* whether a line of an info block is a field line
HasColon(line) == \E i \in 1..Len(line) : line[i] = ":"

\* the rows of t that are field lines, and those that are continuation lines
FieldRows(t) == {i \in RowStarts(t) : HasColon(LineAt(t, i))}
ContRows(t) == RowStarts(t) \ FieldRows(t)

\* the name and the own value of the field line at i
FieldName(t, i) == str_strip(SubSeq(LineAt(t, i), 1, Find(LineAt(t, i), <<":">>) - 1))
FieldValue(t, i) ==
    str_strip(SubSeq(LineAt(t, i), Find(LineAt(t, i), <<":">>) + 1, Len(LineAt(t, i))))

\* the continuation rows that follow the field line at i, up to the next field line
ContsOf(t, i) == {c \in ContRows(t) : c > i /\ \A f \in FieldRows(t) : ~(i < f /\ f < c)}

RECURSIVE JoinConts(_, _, _)
\* v, then the fragments of the rows cs of t in their order, joined by two spaces
JoinConts(t, v, cs) ==
    IF cs = {} THEN v
    ELSE LET c == CHOOSE x \in cs : \A y \in cs : x <= y
         IN JoinConts(t, v \o <<" ", " ">> \o str_strip(LineAt(t, c)), cs \ {c})

\* C8: for every stdout that came with exit code 0, get_info returns; every
\* field line defines a field, the last line of a name holding its value with
\* the continuation lines that follow joined by two spaces in their order; and
\* every continuation fragment is in the value of some returned field.
C8_InfoBlock ==
    (call.op = "get_info" /\ spawned[2].code = 0) =>
        /\ outcome.kind = "return"
        /\ \A i \in FieldRows(Out(2)) :
               /\ DictHas(outcome.value, FieldName(Out(2), i))
               /\ (\A j \in FieldRows(Out(2)) :
                       FieldName(Out(2), j) = FieldName(Out(2), i) => j <= i) =>
                      DictGet(outcome.value, FieldName(Out(2), i))
                          = JoinConts(Out(2), FieldValue(Out(2), i), ContsOf(Out(2), i))
        /\ \A c \in ContRows(Out(2)) :
               \E k \in 1..Len(outcome.value) :
                   Find(outcome.value[k].val, str_strip(LineAt(Out(2), c))) > 0

Arrow == <<" ", "-", ">", " ">>

\* the package a line of -Qu names, and the version after its arrow
ArrowName(line) ==
    Field(IF Find(line, Arrow) = 0 THEN line ELSE SubSeq(line, 1, Find(line, Arrow) - 1), 1)
ArrowTarget(line) == SubSeq(line, Find(line, Arrow) + Len(Arrow), Len(line))

\* C9: when -Q exits 0 and -Qu is no error, get_installed returns one record
\* per installed name, installed = True; a record named by a line of -Qu has
\* the text after the arrow as upgradable, a record no line names has False;
\* and no content of -Qu makes the operation fail.
C9_InstalledReconciliation ==
    (/\ call.op = "get_installed"
     /\ spawned[1].code = 0
     /\ WellFormed(Out(1), 2)) =>
        /\ Len(spawned) = 2
        /\ ~(FailedAt(2) /\ spawned[2].stderr # <<>>) =>
               /\ outcome.kind = "return"
               /\ \A name \in NamesIn(Out(1), 1) :
                      Cardinality({i \in 1..Len(outcome.value) :
                                       outcome.value[i].id = name}) = 1
               /\ \A i \in 1..Len(outcome.value) :
                      LET rec == outcome.value[i]
                          rows == {r \in RowStarts(Out(2)) :
                                       ArrowName(LineAt(Out(2), r)) = rec.id}
                      IN /\ rec.id \in NamesIn(Out(1), 1)
                         /\ rec.installed
                         /\ rows = {} => rec.upgradable = PyFalse
                         /\ \A r \in rows :
                                Find(LineAt(Out(2), r), Arrow) > 0 =>
                                    rec.upgradable = ArrowTarget(LineAt(Out(2), r))

\* C10: when an installed name is on two or more lines of -Sl, its record has
\* the repo of the last of them, and its upgradable is decided by the last
\* alone: that line's version if it differs from the installed one, else False.
C10_LastOccurrence ==
    (GetAllReturned /\ NamesOnce(Out(1), 1)) =>
        \A i \in 1..Len(outcome.value) :
            LET rec == outcome.value[i]
                rows == RowsOf(Out(2), 2, rec.id)
                last == LineAt(Out(2), CHOOSE r \in rows : \A x \in rows : x <= r)
            IN (rec.installed /\ Cardinality(rows) >= 2) =>
                   /\ rec.repo = Field(last, 1)
                   /\ rec.upgradable = IF Field(last, 3) # rec.version THEN Field(last, 3)
                                       ELSE PyFalse

====
